---- MODULE Spec2Model ----
(***************************************************************************)
(* A model of the Selerara Dashboard API (src/index.js and its two older   *)
(* deployment variants): the route handlers, the row grouping of           *)
(* /api/faqs and /api/menu, decodeHtml, and the calls the handlers make on *)
(* the mysql2 pool.  What the pool does inside (its connection limit, its  *)
(* queue, what becomes of a connection after an error) is the library's    *)
(* and is not part of the model.                                           *)
(***************************************************************************)
EXTENDS Integers, Sequences, FiniteSets, TLC

VARIABLES
    query,      \* pure-handler specs: the outcome of the awaited pool.query
    reply,      \* pure-handler specs: the reply of the handler, NoReply before
    arg,        \* decodeHtml: the argument str of a call
    decoded,    \* decodeHtml: what the call returned, NotDecoded before
    pc,         \* server: position of each request slot in its handler
    route,      \* server: the route each request slot is serving
    conn,       \* server: TRUE while the handler holds a connection it has not released
    leaked,     \* server: connections of handlers that finished without release()
    acquired,   \* server: db-health, getConnection() resolved
    pinged,     \* server: db-health, ping() resolved
    thrown,     \* server: the message of the error the database call threw, or NoError
    response    \* server: the reply sent for the request, NoReply before

vars == <<query, reply, arg, decoded, pc, route, conn, leaked,
          acquired, pinged, thrown, response>>

pureVars == <<query, reply, arg, decoded>>
serverVars == <<pc, route, conn, leaked,
                acquired, pinged, thrown, response>>

(***************************************************************************)
(* Bounds of the model.                                                    *)
(***************************************************************************)
MaxFaqRows == 3
MaxMenuRows == 3
MaxItemRows == 1
MaxReq == 2
MaxLeaked == 2
MaxTokens == 3

(***************************************************************************)
(* JavaScript values.  A value is a record whose single field names its    *)
(* type, so that values of different types are unequal (===) and never     *)
(* compared field by field.  A string is a sequence of characters.         *)
(***************************************************************************)
Null == [null |-> TRUE]
Undefined == [undef |-> TRUE]
Num(n) == [num |-> n]
Str(s) == [str |-> s]

IsNum(v) == DOMAIN v = {"num"}
IsNullish(v) == v = Null \/ v = Undefined

\* ToBoolean of a value: null, undefined, 0 and '' are falsy.
Truthy(v) ==
    IF IsNullish(v) THEN FALSE
    ELSE IF IsNum(v) THEN v.num # 0
    ELSE v.str # <<>>

\* a || b
Or(a, b) == IF Truthy(a) THEN a ELSE b

(***************************************************************************)
(* String.prototype.replace with a global regular expression of a literal  *)
(* pattern: leftmost, non-overlapping matches, one pass.                   *)
(***************************************************************************)
StartsWith(s, pat) ==
    /\ Len(s) >= Len(pat)
    /\ SubSeq(s, 1, Len(pat)) = pat

RECURSIVE ReplaceAll(_, _, _)
ReplaceAll(s, pat, rep) ==
    IF s = <<>> THEN <<>>
    ELSE IF StartsWith(s, pat)
         THEN rep \o ReplaceAll(SubSeq(s, Len(pat) + 1, Len(s)), pat, rep)
         ELSE <<Head(s)>> \o ReplaceAll(Tail(s), pat, rep)

EntLt == <<"&", "l", "t", ";">>
EntGt == <<"&", "g", "t", ";">>
EntApos == <<"&", "#", "0", "3", "9", ";">>
EntQuot == <<"&", "q", "u", "o", "t", ";">>
EntAmp == <<"&", "a", "m", "p", ";">>
EscLt == <<"\\", "u", "0", "0", "3", "C">>
EscGt == <<"\\", "u", "0", "0", "3", "E">>

\* A plausible slip: '&amp;' decoded first, so '&amp;lt;' is decoded twice.
decodeChainAmpFirst(s) ==
    ReplaceAll(ReplaceAll(ReplaceAll(ReplaceAll(ReplaceAll(ReplaceAll(ReplaceAll(
        s, EntAmp, <<"&">>), EntLt, <<"<">>), EntGt, <<">">>), EntApos, <<"'">>),
        EntQuot, <<"\"">>), EscLt, <<"<">>), EscGt, <<">">>)

\* The chain of seven replace calls of decodeHtml, in the source's order.
decodeChain(s) ==
    ReplaceAll(ReplaceAll(ReplaceAll(ReplaceAll(ReplaceAll(ReplaceAll(ReplaceAll(
        s, EntLt, <<"<">>), EntGt, <<">">>), EntApos, <<"'">>), EntQuot, <<"\"">>),
        EntAmp, <<"&">>), EscLt, <<"<">>), EscGt, <<">">>)

\* A plausible slip: str.replace without the optional chain, which throws a
\* TypeError on a null or undefined str.
decodeHtmlNoOptionalChain(v) ==
    IF IsNullish(v) THEN [threw |-> "TypeError"] ELSE Str(decodeChain(v.str))

\* decodeHtml: str?.replace(...)...; the optional chain short-circuits the
\* whole chain to undefined when str is null or undefined.
decodeHtml(v) ==
    IF IsNullish(v) THEN Undefined ELSE Str(decodeChain(v.str))

(***************************************************************************)
(* Replies and query outcomes.                                             *)
(***************************************************************************)
NoReply == [code |-> 0]
Ok(body) == [code |-> 200, body |-> body]
\* reply.code(500).send({ error: error.message })
Error500(message) == [code |-> 500, body |-> [error |-> message]]

Resolved(rs) == [ok |-> TRUE, rows |-> rs]
Rejected(message) == [ok |-> FALSE, message |-> message]

\* Messages of the errors the database driver throws.
DbErrors == {"connect ECONNREFUSED", "Connection lost"}

(***************************************************************************)
(* GET /api/faqs.                                                          *)
(***************************************************************************)
\* acc.find(cat => cat.name === name): the index of the first match, 0 if none.
FindCategory(acc, name) ==
    IF \E i \in 1..Len(acc) : acc[i].name = name
    THEN CHOOSE i \in 1..Len(acc) :
            /\ acc[i].name = name
            /\ \A j \in 1..(i - 1) : acc[j].name # name
    ELSE 0

\* A plausible slip: the found category's items are replaced, not pushed to.
FaqStepOverwrite(acc, faq) ==
    LET c == FindCategory(acc, faq.category_name)
        item == [title |-> faq.title, text |-> faq.text]
    IN  IF c # 0
        THEN [acc EXCEPT ![c].items = <<item>>]
        ELSE Append(acc, [name |-> faq.category_name, items |-> <<item>>])

\* One call of the reduce callback.
FaqStep(acc, faq) ==
    LET c == FindCategory(acc, faq.category_name)
        item == [title |-> faq.title, text |-> faq.text]
    IN  IF c # 0
        THEN [acc EXCEPT ![c].items = Append(@, item)]
        ELSE Append(acc, [name |-> faq.category_name, items |-> <<item>>])

\* faqs.reduce(callback, [])
RECURSIVE FaqReduce(_)
FaqReduce(faqs) ==
    IF faqs = <<>> THEN <<>>
    ELSE FaqStep(FaqReduce(SubSeq(faqs, 1, Len(faqs) - 1)), faqs[Len(faqs)])

\* The handler after the awaited query: try { ... return response } catch.
FaqsHandler(q) ==
    IF q.ok THEN Ok([categories |-> FaqReduce(q.rows)])
    ELSE Error500(q.message)

(***************************************************************************)
(* GET /api/menu.                                                          *)
(***************************************************************************)
DefaultImage == Str(<<"/", "i", "m", "g", "/", "m", "e", "n", "u", "/",
                      "d", "e", "f", "a", "u", "l", "t", ".", "j", "p", "g">>)
DefaultCurrency == Str(<<"$">>)
DefaultRating == Num(5)

\* The TypeError of row.price.toString() on a null price.
PriceTypeError == "Cannot read properties of null (reading 'toString')"

Digit(d) == <<"0", "1", "2", "3", "4", "5", "6", "7", "8", "9">>[d + 1]

RECURSIVE Digits(_)
Digits(n) == IF n < 10 THEN <<Digit(n)>> ELSE Digits(n \div 10) \o <<Digit(n % 10)>>

\* Number.prototype.toString / String.prototype.toString of a non-null price
\* (natural numbers and strings).
ToStr(v) == IF IsNum(v) THEN Str(Digits(v.num)) ELSE v

\* ...(row.badge && { badge: decodeHtml(row.badge) }): spreading a falsy
\* value adds no key.
BadgeSpread(row) ==
    IF Truthy(row.badge) THEN [b \in {"badge"} |-> decodeHtml(row.badge)]
    ELSE [b \in {} |-> Null]

\* A plausible slip: the defaults are left out.
MenuItemNoDefaults(row) ==
    [image |-> row.image,
     title |-> row.title,
     price |-> ToStr(row.price),
     currency |-> row.currency,
     rating |-> row.rating,
     text |-> row.item_description] @@ BadgeSpread(row)

\* The object literal pushed for a row with a truthy id and a non-null price.
MenuItem(row) ==
    [image |-> Or(row.image, DefaultImage),
     title |-> row.title,
     price |-> ToStr(row.price),
     currency |-> Or(row.currency, DefaultCurrency),
     rating |-> Or(row.rating, DefaultRating),
     text |-> row.item_description] @@ BadgeSpread(row)

\* The accumulator of the reduce: the object acc as a function from its
\* keys to the category records, or the exception the callback threw.
EmptyObject == [k \in {} |-> Null]
Running(obj) == [threw |-> FALSE, obj |-> obj]
Threw(message) == [threw |-> TRUE, message |-> message]

\* A plausible slip: a category counts as present when an entry has its
\* name, as the grouping of /api/faqs looks categories up.
WithCategoryByName(obj, row) ==
    IF \E k \in DOMAIN obj : obj[k].name = row.category_name THEN obj
    ELSE obj @@ (row.category_id :>
                    [name |-> row.category_name,
                     slug |-> row.category_slug,
                     description |-> row.category_description,
                     items |-> <<>>])

\* if (!acc[categoryId]) acc[categoryId] = {name, slug, description, items: []}
WithCategory(obj, row) ==
    IF row.category_id \in DOMAIN obj THEN obj
    ELSE obj @@ (row.category_id :>
                    [name |-> row.category_name,
                     slug |-> row.category_slug,
                     description |-> row.category_description,
                     items |-> <<>>])

\* One call of the reduce callback; an exception ends the reduce.
MenuStep(acc, row) ==
    IF acc.threw THEN acc
    ELSE LET obj == WithCategory(acc.obj, row)
         IN  IF ~Truthy(row.id) THEN Running(obj)
             ELSE IF IsNullish(row.price) THEN Threw(PriceTypeError)
             ELSE Running([obj EXCEPT ![row.category_id].items =
                                          Append(@, MenuItem(row))])

\* rows.reduce(callback, {})
RECURSIVE MenuReduce(_)
MenuReduce(rs) ==
    IF rs = <<>> THEN Running(EmptyObject)
    ELSE MenuStep(MenuReduce(SubSeq(rs, 1, Len(rs) - 1)), rs[Len(rs)])

\* The own keys of an object whose keys are integer indices: ascending.
RECURSIVE AscendingKeys(_)
AscendingKeys(ks) ==
    IF ks = {} THEN <<>>
    ELSE LET m == CHOOSE k \in ks : \A j \in ks : k <= j
         IN  <<m>> \o AscendingKeys(ks \ {m})

\* A plausible slip: the values are listed from the largest key down.
ObjectValuesDescending(obj) ==
    LET ks == AscendingKeys(DOMAIN obj)
    IN  [i \in 1..Len(ks) |-> obj[ks[Len(ks) + 1 - i]]]

\* Object.values(categories)
ObjectValues(obj) ==
    LET ks == AscendingKeys(DOMAIN obj)
    IN  [i \in 1..Len(ks) |-> obj[ks[i]]]

\* The handler after the awaited query: try { ... return response } catch.
MenuHandler(q) ==
    IF ~q.ok THEN Error500(q.message)
    ELSE LET acc == MenuReduce(q.rows)
         IN  IF acc.threw THEN Error500(acc.message)
             ELSE Ok([categories |-> ObjectValues(acc.obj)])

(***************************************************************************)
(* The rows the queries resolve with.                                      *)
(***************************************************************************)
\* Sequences of at most n elements of S.
SeqsUpTo(S, n) == UNION {[1..k -> S] : k \in 0..n}

\* faq f JOIN category_faq c: id, title, text, category_id, category_name.
FaqRows ==
    {[id |-> Num(i), title |-> Str(<<"Q", Digit(i)>>), text |-> Str(<<"T", Digit(i)>>),
      category_id |-> Num(c), category_name |-> Str(n)] :
        i \in {1, 2}, c \in {1, 2}, n \in {<<"A">>, <<"B">>}}

FaqOutcomes ==
    {Resolved(rs) : rs \in SeqsUpTo(FaqRows, MaxFaqRows)}
        \cup {Rejected(e) : e \in DbErrors}

\* menu_category c: id, name, slug, description.  The slug tells the
\* categories apart; ids 1 and 3 share a display name.
MenuCategories ==
    {[category_id |-> c, category_name |-> Str(n),
      category_slug |-> Str(<<"c">> \o Digits(c)),
      category_description |-> Str(<<"d">>)] :
        <<c, n>> \in {<<1, <<"A">>>>, <<2, <<"B">>>>, <<3, <<"A">>>>}}

\* LEFT JOIN menu_item m: a category without items has every item column null.
NoItem ==
    [id |-> Null, title |-> Null, image |-> Null, price |-> Null,
     item_description |-> Null, badge |-> Null, rating |-> Null, currency |-> Null]

PlainItem(i, t, p) ==
    [id |-> i, title |-> Str(t), image |-> Str(<<"a", ".", "j", "p", "g">>),
     price |-> p, item_description |-> Str(<<"x">>), badge |-> Null,
     rating |-> Num(4), currency |-> Str(<<"R", "p">>)]

\* Items that differ in what the grouping looks at: the id and the price.
GroupingItems ==
    {NoItem,
     PlainItem(Num(1), <<"P">>, Num(10)),
     PlainItem(Num(2), <<"Q">>, Str(<<"9", ".", "5", "0">>)),
     PlainItem(Num(0), <<"Z">>, Num(10)),
     PlainItem(Num(3), <<"N">>, Null)}

Badges ==
    {Null, Str(<<>>), Str(<<"N", "e", "w">>),
     Str(<<"R">> \o EntAmp \o <<"B">>),
     Str(EntAmp \o <<"l", "t", ";">>),
     Str(EntLt \o <<"b">> \o EntGt),
     Str(EntApos \o EntQuot),
     Str(EscLt \o EscGt)}

FieldItem(im, p, b, ra, cu) ==
    [id |-> Num(7), title |-> Str(<<"P">>), image |-> im, price |-> p,
     item_description |-> Str(<<"x">>), badge |-> b, rating |-> ra, currency |-> cu]

\* Items that differ in the nullable columns the item construction reads:
\* every combination of image, currency and rating, with and without a
\* badge, and every badge.
FieldItems ==
    {FieldItem(im, p, b, ra, cu) :
        im \in {Null, Str(<<>>), Str(<<"a", ".", "j", "p", "g">>)},
        p \in {Num(10), Str(<<"9", ".", "5", "0">>)},
        b \in {Null, Str(<<"R">> \o EntAmp \o <<"B">>)},
        ra \in {Null, Num(0), Num(4)},
        cu \in {Null, Str(<<>>), Str(<<"R", "p">>)}}
    \cup {FieldItem(Null, Num(10), b, Null, Null) : b \in Badges}

GroupingRows == {c @@ it : c \in MenuCategories, it \in GroupingItems}
FieldRows == {c @@ it : c \in {m \in MenuCategories : m.category_id = 2}, it \in FieldItems}

\* FROM menu_category c LEFT JOIN menu_item m ... ORDER BY c.id, m.id: the
\* rows come by ascending category id and, within a category, by ascending
\* item id; a row without item is the only row of its category.
OrderedByQuery(rs) ==
    \A i, j \in 1..Len(rs) :
        i < j =>
            /\ rs[i].category_id <= rs[j].category_id
            /\ rs[i].category_id = rs[j].category_id =>
                  /\ IsNum(rs[i].id) /\ IsNum(rs[j].id)
                  /\ rs[i].id.num <= rs[j].id.num

MenuOutcomes ==
    {Resolved(rs) : rs \in {q \in SeqsUpTo(GroupingRows, MaxMenuRows)
                                    \cup SeqsUpTo(FieldRows, MaxItemRows) :
                                OrderedByQuery(q)}}
        \cup {Rejected(e) : e \in DbErrors}

(***************************************************************************)
(* The server: concurrent requests over the connection pool.               *)
(***************************************************************************)

Requests == 1..MaxReq

NoError == "none"

\* Routes whose handler returns the rows of one query unchanged.
PlainRoutes == {"users", "images", "reviews", "menu-categories", "menu-items"}
DataRoutes == PlainRoutes \cup {"faqs", "menu"}
Routes == {"health", "db-health"} \cup DataRoutes

\* The rows a query of the route resolves with.
QueryResults(rt) ==
    IF rt = "faqs"
    THEN SeqsUpTo({f \in FaqRows : f.id = Num(1) /\ f.category_id = Num(1)
                                     /\ f.category_name = Str(<<"A">>)}, 1)
    ELSE IF rt = "menu"
    THEN SeqsUpTo({m \in GroupingRows : m.category_id = 2 /\ m.id \in {Null, Num(1), Num(3)}}, 1)
    ELSE {<<[id |-> Num(1)]>>}

HealthOk == Ok([status |-> "OK"])
DbHealthOk == Ok([status |-> "OK", message |-> "Database connection is successful"])

\* A plausible slip: the catch of db-health answers with code 200.
DbHealthCatchAs200(message) ==
    [code |-> 200, body |-> [status |-> "ERROR", message |-> message]]

\* reply.code(500).send({ status: 'ERROR', message: error.message })
DbHealthCatch(message) ==
    [code |-> 500, body |-> [status |-> "ERROR", message |-> message]]

\* The reply of a data route once its awaited pool.query has settled.
DataHandler(rt, q) ==
    IF rt = "faqs" THEN FaqsHandler(q)
    ELSE IF rt = "menu" THEN MenuHandler(q)
    ELSE IF q.ok THEN Ok(q.rows) ELSE Error500(q.message)

\* The catch block of the route of request r.
Catch(rt, message) ==
    IF rt = "db-health" THEN DbHealthCatch(message)
    ELSE DataHandler(rt, Rejected(message))

ServerInit ==
    /\ pc = [r \in Requests |-> "idle"]
    /\ route = [r \in Requests |-> "health"]
    /\ conn = [r \in Requests |-> FALSE]
    /\ leaked = 0
    /\ acquired = [r \in Requests |-> FALSE]
    /\ pinged = [r \in Requests |-> FALSE]
    /\ thrown = [r \in Requests |-> NoError]
    /\ response = [r \in Requests |-> NoReply]

\* GET /api/health: answered without the pool.
Health(r) ==
    /\ pc[r] = "idle"
    /\ pc' = [pc EXCEPT ![r] = "done"]
    /\ route' = [route EXCEPT ![r] = "health"]
    /\ response' = [response EXCEPT ![r] = HealthOk]
    /\ UNCHANGED <<conn, leaked, acquired, pinged, thrown>>

\* GET /api/db-health up to its first await: the handler calls
\* pool.getConnection() and is suspended.
GetConnection(r) ==
    /\ pc[r] = "idle"
    /\ pc' = [pc EXCEPT ![r] = "connecting"]
    /\ route' = [route EXCEPT ![r] = "db-health"]
    /\ UNCHANGED <<conn, leaked, acquired, pinged, thrown, response>>

\* In a later turn getConnection resolves: the handler resumes with the
\* connection, calls connection.ping() and is suspended again.
ConnectResolves(r) ==
    /\ pc[r] = "connecting"
    /\ pc' = [pc EXCEPT ![r] = "pinging"]
    /\ conn' = [conn EXCEPT ![r] = TRUE]
    /\ acquired' = [acquired EXCEPT ![r] = TRUE]
    /\ UNCHANGED <<route, leaked, pinged, thrown, response>>

\* In a later turn getConnection rejects: the await throws and the catch
\* block answers; the handler never had a connection.
ConnectRejects(r, e) ==
    /\ pc[r] = "connecting"
    /\ pc' = [pc EXCEPT ![r] = "done"]
    /\ thrown' = [thrown EXCEPT ![r] = e]
    /\ response' = [response EXCEPT ![r] = DbHealthCatch(e)]
    /\ UNCHANGED <<route, conn, leaked, acquired, pinged>>

\* connection.release() by the handler of request r, which then returns.
ReleaseAndFinish(r) ==
    /\ conn' = [conn EXCEPT ![r] = FALSE]
    /\ pc' = [pc EXCEPT ![r] = "done"]

\* db-health: ping resolves; connection.release(); return OK.
PingResolves(r) ==
    /\ pc[r] = "pinging"
    /\ ReleaseAndFinish(r)
    /\ pinged' = [pinged EXCEPT ![r] = TRUE]
    /\ response' = [response EXCEPT ![r] = DbHealthOk]
    /\ UNCHANGED <<route, leaked, acquired, thrown>>

\* db-health: ping throws; control jumps to the catch block, past
\* connection.release(): the handler finishes without having released the
\* connection it was given.
PingRejects(r, e) ==
    /\ pc[r] = "pinging"
    /\ pc' = [pc EXCEPT ![r] = "done"]
    /\ thrown' = [thrown EXCEPT ![r] = e]
    /\ response' = [response EXCEPT ![r] = DbHealthCatch(e)]
    /\ leaked' = leaked + 1
    /\ UNCHANGED <<route, conn, acquired, pinged>>

\* A data route up to its await: the handler calls pool.query() and is
\* suspended.  The handler itself is given no connection.
Query(r, rt) ==
    /\ pc[r] = "idle"
    /\ rt \in DataRoutes
    /\ pc' = [pc EXCEPT ![r] = "querying"]
    /\ route' = [route EXCEPT ![r] = rt]
    /\ UNCHANGED <<conn, leaked, acquired, pinged, thrown, response>>

\* A data route: pool.query resolves with the rows; the handler shapes and
\* returns them.
QueryResolves(r, rs) ==
    /\ pc[r] = "querying"
    /\ rs \in QueryResults(route[r])
    /\ pc' = [pc EXCEPT ![r] = "done"]
    /\ response' = [response EXCEPT ![r] = DataHandler(route[r], Resolved(rs))]
    /\ UNCHANGED <<route, conn, leaked, acquired, pinged, thrown>>

\* A data route: pool.query rejects; the catch block answers.
QueryRejects(r, e) ==
    /\ pc[r] = "querying"
    /\ pc' = [pc EXCEPT ![r] = "done"]
    /\ thrown' = [thrown EXCEPT ![r] = e]
    /\ response' = [response EXCEPT ![r] = Catch(route[r], e)]
    /\ UNCHANGED <<route, conn, leaked, acquired, pinged>>

\* The reply is on the wire; the slot serves the next request.  The count
\* of connections never released is kept.
Recycle(r) ==
    /\ pc[r] = "done"
    /\ leaked < MaxLeaked
    /\ pc' = [pc EXCEPT ![r] = "idle"]
    /\ route' = [route EXCEPT ![r] = "health"]
    /\ conn' = [conn EXCEPT ![r] = FALSE]
    /\ acquired' = [acquired EXCEPT ![r] = FALSE]
    /\ pinged' = [pinged EXCEPT ![r] = FALSE]
    /\ thrown' = [thrown EXCEPT ![r] = NoError]
    /\ response' = [response EXCEPT ![r] = NoReply]
    /\ UNCHANGED leaked

\* The steps the settling of an awaited promise drives.
Settle(r) ==
    \/ ConnectResolves(r)
    \/ \E e \in DbErrors : ConnectRejects(r, e)
    \/ PingResolves(r)
    \/ \E e \in DbErrors : PingRejects(r, e)
    \/ \E rs \in QueryResults(route[r]) : QueryResolves(r, rs)
    \/ \E e \in DbErrors : QueryRejects(r, e)

Arrive(r) ==
    \/ Health(r)
    \/ GetConnection(r)
    \/ \E rt \in DataRoutes : Query(r, rt)

NotDecoded == [pending |-> TRUE]
DecodeIdle == arg = Undefined /\ decoded = NotDecoded
PureIdle == query = Resolved(<<>>) /\ reply = NoReply /\ DecodeIdle

Init == ServerInit /\ PureIdle

Next ==
    \/ \E r \in Requests : Arrive(r) /\ UNCHANGED pureVars
    \/ \E r \in Requests : Settle(r) /\ UNCHANGED pureVars
    \/ \E r \in Requests : Recycle(r) /\ UNCHANGED pureVars

Spec == Init /\ [][Next]_vars

(***************************************************************************)
(* One request to /api/faqs and one to /api/menu, from the settled query   *)
(* to the reply.                                                           *)
(***************************************************************************)
FaqsInit == query \in FaqOutcomes /\ reply = NoReply /\ DecodeIdle /\ ServerInit

FaqsReply ==
    /\ reply = NoReply
    /\ reply' = FaqsHandler(query)
    /\ UNCHANGED <<query, arg, decoded, serverVars>>

SpecFaqs == FaqsInit /\ [][FaqsReply]_vars

MenuInit == query \in MenuOutcomes /\ reply = NoReply /\ DecodeIdle /\ ServerInit

MenuReply ==
    /\ reply = NoReply
    /\ reply' = MenuHandler(query)
    /\ UNCHANGED <<query, arg, decoded, serverVars>>

SpecMenu == MenuInit /\ [][MenuReply]_vars

(***************************************************************************)
(* One call of decodeHtml.                                                 *)
(***************************************************************************)
\* Pieces of text: plain characters, the escaped forms and parts of them.
Tokens ==
    {<<"a">>, <<"&">>, <<";">>, <<"\\">>, <<"l", "t">>, <<"a", "m", "p", ";">>,
     <<"u", "0", "0", "3", "C">>,
     EntLt, EntGt, EntApos, EntQuot, EntAmp, EscLt, EscGt}

RECURSIVE Concat(_)
Concat(ts) == IF ts = <<>> THEN <<>> ELSE Head(ts) \o Concat(Tail(ts))

\* The strings of at most MaxTokens pieces, and a missing argument.
DecodeInputs ==
    {Str(Concat(ts)) : ts \in SeqsUpTo(Tokens, MaxTokens)} \cup {Undefined, Null}

DecodeInit ==
    /\ arg \in DecodeInputs /\ decoded = NotDecoded
    /\ query = Resolved(<<>>) /\ reply = NoReply /\ ServerInit

Decode ==
    /\ decoded = NotDecoded
    /\ decoded' = decodeHtml(arg)
    /\ UNCHANGED <<arg, query, reply, serverVars>>

SpecDecode == DecodeInit /\ [][Decode]_vars

(***************************************************************************)
(* Properties of the FAQ grouping (SpecFaqs).                              *)
(***************************************************************************)
\* The {title, text} pairs of the rows named n, in row order.
FaqPairsOf(rs, n) ==
    LET Named(f) == f.category_name = n
        sel == SelectSeq(rs, Named)
    IN  [i \in 1..Len(sel) |-> [title |-> sel[i].title, text |-> sel[i].text]]

FaqNamesOf(rs) == {rs[i].category_name : i \in 1..Len(rs)}

\* C1: once /api/faqs has answered a resolved query, every category_name of
\* the rows has exactly one category entry of that name, the entry's items
\* are exactly the {title, text} pairs of the rows of that name in row
\* order, and no entry has another name.
C1_FaqGrouping ==
    (query.ok /\ reply # NoReply) =>
        /\ reply.code = 200
        /\ LET cats == reply.body.categories
           IN  /\ \A n \in FaqNamesOf(query.rows) :
                    /\ Cardinality({i \in 1..Len(cats) : cats[i].name = n}) = 1
                    /\ \A i \in 1..Len(cats) :
                         cats[i].name = n => cats[i].items = FaqPairsOf(query.rows, n)
               /\ \A i \in 1..Len(cats) : cats[i].name \in FaqNamesOf(query.rows)

\* Rows A, B, A: the third row joins the entry the first row created.
C1_Witness ==
    /\ query.ok /\ reply.code = 200
    /\ Len(query.rows) = 3
    /\ query.rows[1].category_name = query.rows[3].category_name
    /\ query.rows[1].category_name # query.rows[2].category_name
    /\ query.rows[1].title # query.rows[3].title
    /\ Len(reply.body.categories) = 2
    /\ Len(reply.body.categories[1].items) = 2

(***************************************************************************)
(* Properties of the menu grouping (SpecMenu).                             *)
(***************************************************************************)
MenuIdsOf(rs) == {rs[i].category_id : i \in 1..Len(rs)}

\* The rows of category c whose item the reduce lists.
ListedRowsOf(rs, c) ==
    LET Listed(m) == m.category_id = c /\ Truthy(m.id)
    IN  SelectSeq(rs, Listed)

SlugOf(c) == Str(<<"c">> \o Digits(c))

Answered200 == query.ok /\ reply # NoReply /\ reply.code = 200

\* C2 (as claimed): in a 200 reply of /api/menu every category_id of the
\* rows has one entry, with as many items as the category has rows with a
\* non-null item id.
C2_MenuItemCounts ==
    Answered200 =>
        LET cats == reply.body.categories
        IN  \A c \in MenuIdsOf(query.rows) :
              /\ Cardinality({i \in 1..Len(cats) : cats[i].slug = SlugOf(c)}) = 1
              /\ \A i \in 1..Len(cats) :
                   cats[i].slug = SlugOf(c) =>
                     Len(cats[i].items) =
                       Cardinality({j \in 1..Len(query.rows) :
                                       /\ query.rows[j].category_id = c
                                       /\ query.rows[j].id # Null})

\* The ids of the rows in the order of their first occurrence.
RECURSIVE FirstOccurrences(_)
FirstOccurrences(rs) ==
    IF rs = <<>> THEN <<>>
    ELSE LET before == FirstOccurrences(SubSeq(rs, 1, Len(rs) - 1))
             c == rs[Len(rs)].category_id
         IN  IF \E i \in 1..Len(before) : before[i] = c THEN before
             ELSE Append(before, c)

ItemTitles(items) == [i \in 1..Len(items) |-> items[i].title]
RowTitles(rs) == [i \in 1..Len(rs) |-> rs[i].title]

\* C3: in a 200 reply of /api/menu the category entries are in the order in
\* which their category_id first occurs in the rows, and within each entry
\* the items are in row order.
C3_MenuOrdering ==
    Answered200 =>
        LET cats == reply.body.categories
            ids == FirstOccurrences(query.rows)
        IN  /\ Len(cats) = Len(ids)
            /\ \A i \in 1..Len(cats) :
                 /\ cats[i].slug = SlugOf(ids[i])
                 /\ ItemTitles(cats[i].items) =
                      RowTitles(ListedRowsOf(query.rows, ids[i]))

\* Rows of categories 1, 1, 3 with items 1 and 2 in category 1: two entries,
\* category 1 first with its two items in row order, then category 3.
C3_Witness ==
    /\ Answered200
    /\ Len(query.rows) = 3
    /\ query.rows[1].category_id = 1 /\ query.rows[2].category_id = 1
    /\ query.rows[3].category_id = 3
    /\ query.rows[1].id = Num(1) /\ query.rows[2].id = Num(2)
    /\ Truthy(query.rows[3].id)
    /\ Len(reply.body.categories) = 2
    /\ reply.body.categories[1].slug = SlugOf(1)
    /\ reply.body.categories[2].slug = SlugOf(3)
    /\ ItemTitles(reply.body.categories[1].items) = <<Str(<<"P">>), Str(<<"Q">>)>>
    /\ Len(reply.body.categories[2].items) = 1

\* The rows that have an item in the reply, and the item of row i: the k-th
\* item of the entry of its category, for the k-th listed row of the category.
ListedRows == {i \in 1..Len(query.rows) : Truthy(query.rows[i].id)}

ItemOfRow(i) ==
    LET rs == query.rows
        cats == reply.body.categories
        e == CHOOSE x \in 1..Len(cats) : cats[x].slug = rs[i].category_slug
        k == Cardinality({j \in 1..i : /\ rs[j].category_id = rs[i].category_id
                                        /\ Truthy(rs[j].id)})
    IN  cats[e].items[k]

\* C4 (as claimed): in a 200 reply of /api/menu, the item of a row carries
\* the row's image, currency and rating, each whenever it is non-null.
C4_NonNullPassThrough ==
    Answered200 =>
        \A i \in ListedRows :
            /\ query.rows[i].image # Null => ItemOfRow(i).image = query.rows[i].image
            /\ query.rows[i].currency # Null =>
                 ItemOfRow(i).currency = query.rows[i].currency
            /\ query.rows[i].rating # Null => ItemOfRow(i).rating = query.rows[i].rating

\* C5: in a 200 reply of /api/menu no item's image, currency or rating is
\* null or undefined; the item of a row with a null image has the image
\* '/img/menu/default.jpg', with a null currency the currency '$', with a
\* null rating the rating 5.
C5_MenuItemDefaults ==
    Answered200 =>
        /\ \A e \in 1..Len(reply.body.categories) :
             \A k \in 1..Len(reply.body.categories[e].items) :
                LET it == reply.body.categories[e].items[k]
                IN  /\ ~IsNullish(it.image)
                    /\ ~IsNullish(it.currency)
                    /\ ~IsNullish(it.rating)
        /\ \A i \in ListedRows :
             /\ query.rows[i].image = Null =>
                  ItemOfRow(i).image =
                    Str(<<"/", "i", "m", "g", "/", "m", "e", "n", "u", "/",
                          "d", "e", "f", "a", "u", "l", "t", ".", "j", "p", "g">>)
             /\ query.rows[i].currency = Null => ItemOfRow(i).currency = Str(<<"$">>)
             /\ query.rows[i].rating = Null => ItemOfRow(i).rating = Num(5)

\* A listed row whose image, currency and rating are all null.
C5_Witness ==
    /\ Answered200
    /\ \E i \in ListedRows :
         /\ query.rows[i].image = Null
         /\ query.rows[i].currency = Null
         /\ query.rows[i].rating = Null
         /\ ItemOfRow(i).rating = Num(5)

\* The escaped forms and the characters they stand for.
Escapes ==
    {<<EntLt, "<">>, <<EntGt, ">">>, <<EntApos, "'">>, <<EntQuot, "\"">>,
     <<EntAmp, "&">>, <<EscLt, "<">>, <<EscGt, ">">>}

\* Decoding in one pass from the left: each escaped form is decoded once.
RECURSIVE DecodedOnce(_)
DecodedOnce(s) ==
    IF s = <<>> THEN <<>>
    ELSE IF \E x \in Escapes : StartsWith(s, x[1])
         THEN LET x == CHOOSE y \in Escapes : StartsWith(s, y[1])
              IN  <<x[2]>> \o DecodedOnce(SubSeq(s, Len(x[1]) + 1, Len(s)))
         ELSE <<Head(s)>> \o DecodedOnce(Tail(s))

\* C6 (as claimed): in a 200 reply of /api/menu, the item of a row has no
\* badge key when the row's badge is null, and has the decoded badge under
\* the key badge when the row's badge is not null.
C6_BadgeWhenNotNull ==
    Answered200 =>
        \A i \in ListedRows :
            IF query.rows[i].badge = Null
            THEN "badge" \notin DOMAIN ItemOfRow(i)
            ELSE /\ "badge" \in DOMAIN ItemOfRow(i)
                 /\ ItemOfRow(i).badge = Str(DecodedOnce(query.rows[i].badge.str))

\* C6 (amended): in a 200 reply of /api/menu, the item of a row has no badge
\* key when the row's badge is null or the empty string, and has the decoded
\* badge under the key badge when the row's badge is a non-empty string.
C6_BadgeWhenNotEmpty ==
    Answered200 =>
        \A i \in ListedRows :
            IF query.rows[i].badge = Null \/ query.rows[i].badge = Str(<<>>)
            THEN "badge" \notin DOMAIN ItemOfRow(i)
            ELSE /\ "badge" \in DOMAIN ItemOfRow(i)
                 /\ ItemOfRow(i).badge = Str(DecodedOnce(query.rows[i].badge.str))

\* The badge '&amp;lt;' is listed as '&lt;'.
C6_Witness ==
    /\ Answered200
    /\ \E i \in ListedRows :
         /\ query.rows[i].badge = Str(<<"&", "a", "m", "p", ";", "l", "t", ";">>)
         /\ ItemOfRow(i).badge = Str(<<"&", "l", "t", ";">>)

(***************************************************************************)
(* Properties of the server (Spec).                                        *)
(***************************************************************************)
\* C7 (as claimed): no finished request holds a connection; the number of
\* connections held by finished requests is always 0.
C7_ConnectionsReleased ==
    /\ leaked = 0
    /\ \A r \in Requests : pc[r] = "done" => ~conn[r]

\* C9: a finished db-health request was answered 200 with status 'OK'
\* exactly when getConnection and ping both resolved, and was answered 500
\* with status 'ERROR' and the error's message exactly when one of them
\* threw; it is never answered OK after a failure.
C9_DbHealthOutcome ==
    \A r \in Requests :
        (pc[r] = "done" /\ route[r] = "db-health") =>
            /\ (response[r].code = 200 /\ response[r].body.status = "OK")
                 <=> (acquired[r] /\ pinged[r])
            /\ thrown[r] # NoError <=>
                 response[r] = [code |-> 500,
                                body |-> [status |-> "ERROR", message |-> thrown[r]]]
            /\ thrown[r] # NoError => response[r].code # 200
            /\ response[r].code \in {200, 500}

\* A db-health request whose ping threw after getConnection resolved.
C9_Witness ==
    \E r \in Requests :
        /\ pc[r] = "done" /\ route[r] = "db-health"
        /\ acquired[r] /\ ~pinged[r]
        /\ thrown[r] = "Connection lost"
        /\ response[r].code = 500

\* C10 (as claimed): a finished request of a data route was answered 500
\* with {error: message} if its query threw, and was not answered 500 if
\* its query did not throw.
C10_ErrorTo500 ==
    \A r \in Requests :
        (pc[r] = "done" /\ route[r] \in DataRoutes) =>
            /\ thrown[r] # NoError =>
                 response[r] = [code |-> 500, body |-> [error |-> thrown[r]]]
            /\ thrown[r] = NoError => response[r].code # 500

(***************************************************************************)
(* The grouping key of the menu (SpecMenu).                                *)
(***************************************************************************)
\* The first row of category c.
FirstRowOf(rs, c) ==
    rs[CHOOSE i \in 1..Len(rs) :
          /\ rs[i].category_id = c
          /\ \A j \in 1..(i - 1) : rs[j].category_id # c]

\* C11: in a 200 reply of /api/menu there are as many category entries as
\* the rows have distinct category_id values, whatever their names, and the
\* entry of a category_id carries the name, slug and description of the
\* first row of that category_id.
C11_GroupedById ==
    Answered200 =>
        LET cats == reply.body.categories
            ids == MenuIdsOf(query.rows)
        IN  /\ Len(cats) = Cardinality(ids)
            /\ \A c \in ids :
                 \E i \in 1..Len(cats) :
                    /\ cats[i].slug = FirstRowOf(query.rows, c).category_slug
                    /\ cats[i].name = FirstRowOf(query.rows, c).category_name
                    /\ cats[i].description =
                         FirstRowOf(query.rows, c).category_description

\* Rows of categories 1, 2, 3: ids 1 and 3 share the name 'A' and stay two
\* entries, with their own slugs, around the entry of category 2.
C11_Witness ==
    /\ Answered200
    /\ Len(query.rows) = 3
    /\ query.rows[1].category_id = 1 /\ query.rows[1].category_name = Str(<<"A">>)
    /\ query.rows[2].category_id = 2 /\ query.rows[2].category_name = Str(<<"B">>)
    /\ query.rows[3].category_id = 3 /\ query.rows[3].category_name = Str(<<"A">>)
    /\ Len(reply.body.categories) = 3
    /\ reply.body.categories[1].name = Str(<<"A">>)
    /\ reply.body.categories[1].slug = SlugOf(1)
    /\ reply.body.categories[3].name = Str(<<"A">>)
    /\ reply.body.categories[3].slug = SlugOf(3)

(***************************************************************************)
(* Errors of the grouping step (SpecFaqs, SpecMenu).                       *)
(***************************************************************************)
\* C12 (as claimed): a request to /api/menu whose query resolved is answered
\* 200, never 500, whichever item columns of its rows are null.
C12_MenuGroupingNeverThrows ==
    (query.ok /\ reply # NoReply) => reply.code = 200

(***************************************************************************)
(* decodeHtml on plain text and on a missing argument (SpecDecode).        *)
(***************************************************************************)
Contains(s, pat) ==
    \E i \in 1..(Len(s) - Len(pat) + 1) : SubSeq(s, i, i + Len(pat) - 1) = pat

\* The string holds none of the seven escaped forms.
PlainText(s) == \A x \in Escapes : ~Contains(s, x[1])

\* C14: decodeHtml returns a string that contains none of &lt; &gt; &#039;
\* &quot; &amp; \u003C \u003E unchanged, and returns undefined, without
\* throwing, for an undefined argument.
C14_DecodePlainText ==
    decoded # NotDecoded =>
        /\ arg = Undefined => decoded = Undefined
        /\ (arg \notin {Undefined, Null} /\ PlainText(arg.str)) => decoded = arg

\* A plain string made of the characters of the escaped forms: '&lt' and
\* 'amp;' with no complete form in it.
C14_Witness ==
    /\ decoded # NotDecoded
    /\ arg = Str(<<"&", "l", "t", "a", "m", "p", ";">>)
    /\ decoded = arg

====
